---- MODULE Spec2Model ----
(***************************************************************************)
(* Model of the extraction core of src/forpuchai.py:                       *)
(*   scrape_student_data           (lines 225-314)                         *)
(*   get_ipu_student_data_direct   (lines 324-357)                         *)
(*                                                                         *)
(* Strings are sequences of one-token strings so that strip(), the         *)
(* f-string selector and json.dumps can be computed, not assumed.          *)
(* The rendered site is an input fixed at Init; transient outcomes of the  *)
(* browser (timeouts, failed clicks) are nondeterministic action choices.  *)
(* Every local of an invocation is indexed by the worker that runs it.     *)
(***************************************************************************)
EXTENDS Integers, Sequences, FiniteSets, TLC

VARIABLES site, pc, query, playwright, browser, opened, constructed,
          summary_data, idx, result, resp, sentinelSeen, ran, failed,
          overlay, failedStep

vars == <<site, pc, query, playwright, browser, opened, constructed,
          summary_data, idx, result, resp, sentinelSeen, ran, failed,
          overlay, failedStep>>

(* ---------------------------- bounds ---------------------------------- *)
MaxDefects == 2
MaxRows == 2

(* --------------------------- workers ---------------------------------- *)
Workers == {"w1", "w2"}
SeqWorkers == {"w1"}

(* ------------------------ string helpers ------------------------------ *)
Whitespace == {" "}

RECURSIVE LStrip(_)
LStrip(s) ==
  IF s = <<>> THEN <<>>
  ELSE IF Head(s) \in Whitespace THEN LStrip(Tail(s)) ELSE s

RECURSIVE RStrip(_)
RStrip(s) ==
  IF s = <<>> THEN <<>>
  ELSE IF s[Len(s)] \in Whitespace THEN RStrip(SubSeq(s, 1, Len(s) - 1)) ELSE s

Strip(s) == RStrip(LStrip(s))

Contains(text, sub) ==
  \E i \in 0..(Len(text) - Len(sub)) :
     \A j \in 1..Len(sub) : text[i + j] = sub[j]

RECURSIVE JsonEscape(_)
JsonEscape(s) ==
  IF s = <<>> THEN <<>>
  ELSE IF Head(s) \in {"\"", "\\"}
       THEN <<"\\", Head(s)>> \o JsonEscape(Tail(s))
       ELSE <<Head(s)>> \o JsonEscape(Tail(s))

JsonString(s) == <<"\"">> \o JsonEscape(s) \o <<"\"">>

RECURSIVE JsonUnescape(_)
JsonUnescape(s) ==
  IF s = <<>> THEN <<>>
  ELSE IF Head(s) = "\\" /\ Len(s) >= 2
       THEN <<s[2]>> \o JsonUnescape(Tail(Tail(s)))
       ELSE <<Head(s)>> \o JsonUnescape(Tail(s))

JsonParseString(t) == JsonUnescape(SubSeq(t, 2, Len(t) - 1))

Put(m, k, v) == [x \in (DOMAIN m) \cup {k} |-> IF x = k THEN v ELSE m[x]]

EmptyMap == [x \in {} |-> <<>>]

(* ------------------------- the program's tables ----------------------- *)
FieldOrder == <<
  [key |-> "enrollment_number",     label |-> "Enrollment Number:",     probe |-> "none"],
  [key |-> "name",                  label |-> "Name:",                  probe |-> "none"],
  [key |-> "marks",                 label |-> "Marks:",                 probe |-> "none"],
  [key |-> "percentage",            label |-> "Percentage:",            probe |-> "none"],
  [key |-> "credit_marks",          label |-> "Credit Marks:",          probe |-> "Credit Marks:"],
  [key |-> "credit_percentage",     label |-> "Credit Percentage:",     probe |-> "Credit Marks:"],
  [key |-> "sgpa",                  label |-> "SGPA:",                  probe |-> "SGPA:"],
  [key |-> "cgpa",                  label |-> "CGPA:",                  probe |-> "CGPA:"],
  [key |-> "equivalent_percentage", label |-> "Equivalent Percentage:", probe |-> "none"],
  [key |-> "credits_obtained",      label |-> "Credits Obtained:",      probe |-> "none"],
  [key |-> "rank",                  label |-> "Rank:",                  probe |-> "none"] >>

NumFields == Len(FieldOrder)

Labels == {FieldOrder[i].label : i \in 1..NumFields}

SentinelLabel == "Enrollment Number:"

MinSubjectCells == 2
MinSemesterCells == 3
SgpaCell == 3

(* ---------------------------- the site -------------------------------- *)
(* A label is rendered with a following value node, rendered without one, *)
(* or not rendered at all.                                                *)
LabelStates == {"value", "nosibling", "absent"}

ThreeStateLabels == {"Enrollment Number:", "Credit Marks:", "Credit Percentage:",
                     "SGPA:", "CGPA:"}

LabelConfigs ==
  {c \in [Labels -> LabelStates] :
      /\ \A l \in Labels \ ThreeStateLabels : c[l] # "nosibling"
      /\ Cardinality({l \in Labels : c[l] # "value"}) <= MaxDefects}

AllRendered == [l \in Labels |-> "value"]

RowShapes(cellCounts) ==
  UNION {[1..n -> cellCounts] : n \in 0..MaxRows}

SubjectCellCounts == {1, 2, 3}
SemesterCellCounts == {2, 3, 4}

DefaultSubjects == <<2, 1>>
DefaultSemesters == <<3, 4>>

(* a panel with two subjects and three semesters of data *)
ScenarioSubjects == <<2, 2>>
ScenarioSemesters == <<4, 4, 4>>

(* a listing of two students *)
TwoStudents == << <<"a", "b">>, <<"\"", "b">> >>

Listings == { <<>>, TwoStudents, << <<"c">>, <<"a", "'">> >> }

(* panels with at most one label not rendered with its value *)
OneDefect ==
  {c \in LabelConfigs : Cardinality({l \in Labels : c[l] # "value"}) <= 1}

Urls == { <<"u">>, <<"v", "\\">> }
Identifiers == { <<"a">>, <<"z">>, <<"a", "'">>, <<"\"", "b">> }

(* the listing, the panel's labels and the two tables vary one at a time *)
Sites ==
  {[rows |-> r, labels |-> AllRendered, subject_rows |-> DefaultSubjects,
    sem_rows |-> DefaultSemesters] : r \in Listings}
  \cup
  {[rows |-> TwoStudents, labels |-> c, subject_rows |-> DefaultSubjects,
    sem_rows |-> DefaultSemesters] : c \in LabelConfigs}
  \cup
  {[rows |-> TwoStudents, labels |-> AllRendered, subject_rows |-> s,
    sem_rows |-> DefaultSemesters] : s \in RowShapes(SubjectCellCounts)}
  \cup
  {[rows |-> TwoStudents, labels |-> AllRendered,
    subject_rows |-> DefaultSubjects, sem_rows |-> s] :
       s \in RowShapes(SemesterCellCounts)}
  \cup
  {[rows |-> TwoStudents, labels |-> c, subject_rows |-> ScenarioSubjects,
    sem_rows |-> ScenarioSemesters] : c \in OneDefect}

(* the text of the node following a label, and of a table cell, as rendered *)
(* in the detail panel of the student of listing row `student`              *)
ValueText(student, key) == <<" ", "v", key, ToString(student), " ">>
CellText(student, table, i, j) ==
  <<" ", table, ToString(student), ToString(i), ToString(j), " ">>

(* table tr:has-text('<identifier>') : the identifier is pasted between   *)
(* single quotes, so an identifier holding one makes the selector invalid *)
SelectorValid(identifier) ==
  \A i \in 1..Len(identifier) : identifier[i] # "'"

MatchingRows(rows, identifier) ==
  {i \in 1..Len(rows) : Contains(rows[i], identifier)}

(* .first : the first matching row is the one clicked (0: there is none) *)
FirstRow(rows, identifier) ==
  IF MatchingRows(rows, identifier) = {} THEN 0
  ELSE CHOOSE i \in MatchingRows(rows, identifier) :
         \A j \in MatchingRows(rows, identifier) : i <= j

(* --------------------------- initial state ---------------------------- *)
NoQuery == [url |-> <<>>, identifier |-> <<>>]
Pending == [tag |-> "pending"]
NoResp == [status |-> "none"]

InitLocals ==
  /\ pc = [w \in Workers |-> "idle"]
  /\ query = [w \in Workers |-> NoQuery]
  /\ playwright = [w \in Workers |-> FALSE]
  /\ browser = [w \in Workers |-> "none"]
  /\ opened = [w \in Workers |-> 0]
  /\ constructed = [w \in Workers |-> FALSE]
  /\ summary_data = [w \in Workers |-> EmptyMap]
  /\ idx = [w \in Workers |-> 0]
  /\ result = [w \in Workers |-> Pending]
  /\ resp = [w \in Workers |-> NoResp]
  /\ sentinelSeen = [w \in Workers |-> FALSE]
  /\ ran = [w \in Workers |-> {}]
  /\ failed = [w \in Workers |-> {}]
  /\ overlay = [w \in Workers |-> "none"]
  /\ failedStep = [w \in Workers |-> "none"]

Init == site \in Sites /\ InitLocals

(* ------------------------------ helpers ------------------------------- *)
Upd(f, w, v) == [f EXCEPT ![w] = v]

Raised(type, kind, cause) ==
  [tag |-> "raise", type |-> type, kind |-> kind, cause |-> cause]

Returned(value) == [tag |-> "return", value |-> value]

(* str(e) of the exception that leaves scrape_student_data *)
ErrText(r, identifier) ==
  CASE r.kind = "RowNotFoundOrClickFailed" ->
         <<"Student '">> \o identifier
            \o <<"' not found or click failed. Error: ", r.cause>>
    [] r.kind = "DetailPanelNotReady" ->
         <<"Student detail panel did not load properly">>
    [] OTHER -> <<r.cause>>

(* ------------------- get_ipu_student_data_direct: entry --------------- *)
Call(w, u, i) ==
  /\ pc[w] = "idle"
  /\ query' = Upd(query, w, [url |-> u, identifier |-> i])
  /\ pc' = Upd(pc, w, "launch")
  /\ UNCHANGED <<site, playwright, browser, opened, constructed, summary_data,
                 idx, result, resp, sentinelSeen, ran, failed, overlay,
                 failedStep>>

(* ------------------------ scrape_student_data ------------------------- *)
(* with sync_playwright() as p: browser = p.chromium.launch(headless=True) *)
Launch(w) ==
  /\ pc[w] = "launch"
  /\ playwright' = Upd(playwright, w, TRUE)
  /\ browser' = Upd(browser, w, "open")
  /\ opened' = Upd(opened, w, opened[w] + 1)
  /\ pc' = Upd(pc, w, "goto")
  /\ UNCHANGED <<site, query, constructed, summary_data, idx, result, resp,
                 sentinelSeen, ran, failed, overlay, failedStep>>

(* the launch raises: the driver is running, no browser was started *)
LaunchFail(w) ==
  /\ pc[w] = "launch"
  /\ playwright' = Upd(playwright, w, TRUE)
  /\ result' = Upd(result, w, Raised("Error", "LibraryError", "launch"))
  /\ failedStep' = Upd(failedStep, w, "launch")
  /\ pc' = Upd(pc, w, "exit")
  /\ UNCHANGED <<site, query, browser, opened, constructed, summary_data, idx,
                 resp, sentinelSeen, ran, failed, overlay>>

(* page = browser.new_page(); page.goto(url); page.wait_for_timeout(2000) *)
NewPageGoto(w) ==
  /\ pc[w] = "goto"
  /\ pc' = Upd(pc, w, "overlay")
  /\ UNCHANGED <<site, query, playwright, browser, opened, constructed,
                 summary_data, idx, result, resp, sentinelSeen, ran, failed,
                 overlay, failedStep>>

(* new_page or goto raises outside every try: nothing closes the browser here *)
GotoFail(w) ==
  /\ pc[w] = "goto"
  /\ result' = Upd(result, w, Raised("Error", "LibraryError", "goto"))
  /\ failedStep' = Upd(failedStep, w, "goto")
  /\ pc' = Upd(pc, w, "exit")
  /\ UNCHANGED <<site, query, playwright, browser, opened, constructed,
                 summary_data, idx, resp, sentinelSeen, ran, failed, overlay>>

OverlayOutcomes == {"absent", "timeout", "clicked"}

(* variant of DismissOverlay: a click that times out ends the call *)
DismissOverlay_TimeoutFatal(w, outcome) ==
  /\ pc[w] = "overlay"
  /\ overlay' = Upd(overlay, w, outcome)
  /\ IF outcome = "timeout"
       THEN /\ result' = Upd(result, w, Raised("Error", "LibraryError", "timeout"))
            /\ failedStep' = Upd(failedStep, w, "overlay")
            /\ browser' = Upd(browser, w, "closed")
            /\ pc' = Upd(pc, w, "exit")
       ELSE /\ pc' = Upd(pc, w, "row")
            /\ UNCHANGED <<result, failedStep, browser>>
  /\ UNCHANGED <<site, query, playwright, opened, constructed, summary_data,
                 idx, resp, sentinelSeen, ran, failed>>

(* try: page.locator(".close-button").click(timeout=2000)  except: pass *)
DismissOverlay(w, outcome) ==
  /\ pc[w] = "overlay"
  /\ overlay' = Upd(overlay, w, outcome)
  /\ pc' = Upd(pc, w, "row")
  /\ UNCHANGED <<site, query, playwright, browser, opened, constructed,
                 summary_data, idx, result, resp, sentinelSeen, ran, failed,
                 failedStep>>

RowFound(w) ==
  /\ SelectorValid(query[w].identifier)
  /\ MatchingRows(site.rows, query[w].identifier) # {}

(* locator(...).first, scroll_into_view_if_needed, click(force=True) succeed *)
RowClick(w) ==
  /\ pc[w] = "row"
  /\ RowFound(w)
  /\ pc' = Upd(pc, w, "sentinel")
  /\ UNCHANGED <<site, query, playwright, browser, opened, constructed,
                 summary_data, idx, result, resp, sentinelSeen, ran, failed,
                 overlay, failedStep>>

(* which step of the try block raised, and the text of what it raised *)
RowFailure(w) ==
  IF ~SelectorValid(query[w].identifier)
    THEN {[step |-> "lookup", cause |-> "selector"]}
  ELSE IF MatchingRows(site.rows, query[w].identifier) = {}
    THEN {[step |-> "lookup", cause |-> "timeout"]}
  ELSE {[step |-> "click", cause |-> "scroll"], [step |-> "click", cause |-> "click"]}

(* variant of RowFail: the browser is one object shared by all invocations *)
RowFail_ClosesSharedBrowser(w) ==
  /\ pc[w] = "row"
  /\ \E f \in RowFailure(w) :
       /\ result' = Upd(result, w,
                        Raised("ValueError", "RowNotFoundOrClickFailed", f.cause))
       /\ failedStep' = Upd(failedStep, w, f.step)
  /\ browser' = [v \in Workers |-> "closed"]
  /\ pc' = Upd(pc, w, "exit")
  /\ UNCHANGED <<site, query, playwright, opened, constructed, summary_data,
                 idx, resp, sentinelSeen, ran, failed, overlay>>

(* variant of RowFail: the failure is swallowed like the overlay's (except: pass) *)
RowFail_Swallowed(w) ==
  /\ pc[w] = "row"
  /\ RowFailure(w) # {}
  /\ pc' = Upd(pc, w, "sentinel")
  /\ UNCHANGED <<site, query, playwright, browser, opened, constructed,
                 summary_data, idx, result, resp, sentinelSeen, ran, failed,
                 overlay, failedStep>>

(* except Exception as e: browser.close(); raise ValueError(...) *)
RowFail(w) ==
  /\ pc[w] = "row"
  /\ \E f \in RowFailure(w) :
       /\ result' = Upd(result, w,
                        Raised("ValueError", "RowNotFoundOrClickFailed", f.cause))
       /\ failedStep' = Upd(failedStep, w, f.step)
  /\ browser' = Upd(browser, w, "closed")
  /\ pc' = Upd(pc, w, "exit")
  /\ UNCHANGED <<site, query, playwright, opened, constructed, summary_data,
                 idx, resp, sentinelSeen, ran, failed, overlay>>

(* variant of WaitSentinel: the mapping is one object shared by all invocations *)
WaitSentinel_SharedMapping(w) ==
  /\ pc[w] = "sentinel"
  /\ site.labels[SentinelLabel] # "absent"
  /\ sentinelSeen' = Upd(sentinelSeen, w, TRUE)
  /\ constructed' = Upd(constructed, w, TRUE)
  /\ summary_data' = Upd(summary_data, w,
                         summary_data[CHOOSE v \in Workers : v # w])
  /\ idx' = Upd(idx, w, 1)
  /\ pc' = Upd(pc, w, "scalars")
  /\ UNCHANGED <<site, query, playwright, browser, opened, result, resp, ran,
                 failed, overlay, failedStep>>

(* page.wait_for_selector("text=Enrollment Number:") returns; summary_data = {} *)
WaitSentinel(w) ==
  /\ pc[w] = "sentinel"
  /\ site.labels[SentinelLabel] # "absent"
  /\ sentinelSeen' = Upd(sentinelSeen, w, TRUE)
  /\ constructed' = Upd(constructed, w, TRUE)
  /\ summary_data' = Upd(summary_data, w, EmptyMap)
  /\ idx' = Upd(idx, w, 1)
  /\ pc' = Upd(pc, w, "scalars")
  /\ UNCHANGED <<site, query, playwright, browser, opened, result, resp, ran,
                 failed, overlay, failedStep>>

(* variant of SentinelTimeout: raises the row lookup's message *)
SentinelTimeout_RowMessage(w) ==
  /\ pc[w] = "sentinel"
  /\ result' = Upd(result, w,
                   Raised("ValueError", "RowNotFoundOrClickFailed", "timeout"))
  /\ failedStep' = Upd(failedStep, w, "sentinel")
  /\ browser' = Upd(browser, w, "closed")
  /\ pc' = Upd(pc, w, "exit")
  /\ UNCHANGED <<site, query, playwright, opened, constructed, summary_data,
                 idx, resp, sentinelSeen, ran, failed, overlay>>

(* variant of SentinelTimeout: the timeout is swallowed and extraction starts *)
SentinelTimeout_Swallowed(w) ==
  /\ pc[w] = "sentinel"
  /\ constructed' = Upd(constructed, w, TRUE)
  /\ summary_data' = Upd(summary_data, w, EmptyMap)
  /\ idx' = Upd(idx, w, 1)
  /\ pc' = Upd(pc, w, "scalars")
  /\ UNCHANGED <<site, query, playwright, browser, opened, result, resp,
                 sentinelSeen, ran, failed, overlay, failedStep>>

(* except: browser.close(); raise ValueError("Student detail panel ...") *)
SentinelTimeout(w) ==
  /\ pc[w] = "sentinel"
  /\ result' = Upd(result, w, Raised("ValueError", "DetailPanelNotReady", "timeout"))
  /\ failedStep' = Upd(failedStep, w, "sentinel")
  /\ browser' = Upd(browser, w, "closed")
  /\ pc' = Upd(pc, w, "exit")
  /\ UNCHANGED <<site, query, playwright, opened, constructed, summary_data,
                 idx, resp, sentinelSeen, ran, failed, overlay>>

(* ----------------------- phase 1: scalar fields ------------------------ *)
Field(w) == FieldOrder[idx[w]]

(* variant of ProbePasses: each conditional field is probed by its own label *)
ProbePasses_OwnLabel(f) ==
  IF f.probe = "none" THEN TRUE ELSE site.labels[f.label] # "absent"

(* page.locator("text=<label>").count() > 0, for the conditional fields *)
ProbePasses(f) == IF f.probe = "none" THEN TRUE ELSE site.labels[f.probe] # "absent"

(* get_value(label): locator(...).first.evaluate("el => el.nextSibling.textContent") *)
Readable(label) == site.labels[label] = "value"

Student(w) == FirstRow(site.rows, query[w].identifier)

get_value(w, f) == Strip(ValueText(Student(w), f.key))

(* variant of AfterField: the phase ends one field early *)
AfterField_StopsBeforeLast(w) ==
  IF idx[w] >= NumFields - 1 THEN "subjects" ELSE "scalars"

AfterField(w) == IF idx[w] = NumFields THEN "subjects" ELSE "scalars"

(* summary_data[key] = get_value(label) *)
ReadField(w) ==
  /\ pc[w] = "scalars"
  /\ ProbePasses(Field(w))
  /\ Readable(Field(w).label)
  /\ summary_data' = Upd(summary_data, w,
                         Put(summary_data[w], Field(w).key, get_value(w, Field(w))))
  /\ idx' = Upd(idx, w, idx[w] + 1)
  /\ ran' = Upd(ran, w, ran[w] \cup {"scalars"})
  /\ pc' = Upd(pc, w, AfterField(w))
  /\ UNCHANGED <<site, query, playwright, browser, opened, constructed, result,
                 resp, sentinelSeen, failed, overlay, failedStep>>

(* the presence probe of a conditional field counts zero: the read is skipped *)
SkipField(w) ==
  /\ pc[w] = "scalars"
  /\ ~ProbePasses(Field(w))
  /\ idx' = Upd(idx, w, idx[w] + 1)
  /\ ran' = Upd(ran, w, ran[w] \cup {"scalars"})
  /\ pc' = Upd(pc, w, AfterField(w))
  /\ UNCHANGED <<site, query, playwright, browser, opened, constructed,
                 summary_data, result, resp, sentinelSeen, failed, overlay,
                 failedStep>>

(* variant of ScalarFail: the exception of get_value leaves the function *)
ScalarFail_Propagates(w) ==
  /\ pc[w] = "scalars"
  /\ ProbePasses(Field(w))
  /\ ~Readable(Field(w).label)
  /\ ran' = Upd(ran, w, ran[w] \cup {"scalars"})
  /\ failed' = Upd(failed, w, failed[w] \cup {"scalars"})
  /\ result' = Upd(result, w, Raised("Error", "LibraryError", "get_value"))
  /\ pc' = Upd(pc, w, "exit")
  /\ UNCHANGED <<site, query, playwright, browser, opened, constructed,
                 summary_data, idx, resp, sentinelSeen, overlay, failedStep>>

(* get_value raises: except Exception as e: print("Failed to extract summary info") *)
(* variant of ScalarFail: only the failing field is given up, the next is read *)
ScalarFail_SkipsField(w) ==
  /\ pc[w] = "scalars"
  /\ ProbePasses(Field(w))
  /\ ~Readable(Field(w).label)
  /\ idx' = Upd(idx, w, idx[w] + 1)
  /\ ran' = Upd(ran, w, ran[w] \cup {"scalars"})
  /\ failed' = Upd(failed, w, failed[w] \cup {"scalars"})
  /\ pc' = Upd(pc, w, AfterField(w))
  /\ UNCHANGED <<site, query, playwright, browser, opened, constructed,
                 summary_data, result, resp, sentinelSeen, overlay, failedStep>>

ScalarFail(w) ==
  /\ pc[w] = "scalars"
  /\ ProbePasses(Field(w))
  /\ ~Readable(Field(w).label)
  /\ ran' = Upd(ran, w, ran[w] \cup {"scalars"})
  /\ failed' = Upd(failed, w, failed[w] \cup {"scalars"})
  /\ pc' = Upd(pc, w, "subjects")
  /\ UNCHANGED <<site, query, playwright, browser, opened, constructed,
                 summary_data, idx, result, resp, sentinelSeen, overlay,
                 failedStep>>

(* ----------------------- phase 2: subject table ------------------------ *)
SubjectEntry(w, i) ==
  [subject |-> Strip(CellText(Student(w), "S", i, 0)),
   marks   |-> Strip(CellText(Student(w), "S", i, 1))]

(* subject_rows.count() > 0 ? summary_data["subjects"] = [] *)
(* variant of SubjectStart: the key is created before the rows are counted *)
SubjectStart_AlwaysCreates(w) ==
  /\ pc[w] = "subjects"
  /\ ran' = Upd(ran, w, ran[w] \cup {"subjects"})
  /\ summary_data' = Upd(summary_data, w, Put(summary_data[w], "subjects", <<>>))
  /\ IF Len(site.subject_rows) > 0
       THEN /\ idx' = Upd(idx, w, 1)
            /\ pc' = Upd(pc, w, "subjrows")
       ELSE /\ pc' = Upd(pc, w, "semesters")
            /\ UNCHANGED idx
  /\ UNCHANGED <<site, query, playwright, browser, opened, constructed, result,
                 resp, sentinelSeen, failed, overlay, failedStep>>

SubjectStart(w) ==
  /\ pc[w] = "subjects"
  /\ ran' = Upd(ran, w, ran[w] \cup {"subjects"})
  /\ IF Len(site.subject_rows) > 0
       THEN /\ summary_data' = Upd(summary_data, w,
                                   Put(summary_data[w], "subjects", <<>>))
            /\ idx' = Upd(idx, w, 1)
            /\ pc' = Upd(pc, w, "subjrows")
       ELSE /\ pc' = Upd(pc, w, "semesters")
            /\ UNCHANGED <<summary_data, idx>>
  /\ UNCHANGED <<site, query, playwright, browser, opened, constructed, result,
                 resp, sentinelSeen, failed, overlay, failedStep>>

(* variant of SubjectRow: a row with too few cells ends the loop *)
SubjectRow_StopsAtShortRow(w) ==
  /\ pc[w] = "subjrows"
  /\ summary_data' = Upd(summary_data, w,
       IF site.subject_rows[idx[w]] >= MinSubjectCells
         THEN [summary_data[w] EXCEPT !["subjects"] = Append(@, SubjectEntry(w, idx[w]))]
         ELSE summary_data[w])
  /\ idx' = Upd(idx, w, idx[w] + 1)
  /\ pc' = Upd(pc, w, IF \/ idx[w] = Len(site.subject_rows)
                         \/ site.subject_rows[idx[w]] < MinSubjectCells
                        THEN "semesters" ELSE "subjrows")
  /\ UNCHANGED <<site, query, playwright, browser, opened, constructed, result,
                 resp, sentinelSeen, ran, failed, overlay, failedStep>>

(* one iteration of: for i in range(subject_rows.count()) *)
SubjectRow(w) ==
  /\ pc[w] = "subjrows"
  /\ summary_data' = Upd(summary_data, w,
       IF site.subject_rows[idx[w]] >= MinSubjectCells
         THEN [summary_data[w] EXCEPT !["subjects"] = Append(@, SubjectEntry(w, idx[w]))]
         ELSE summary_data[w])
  /\ idx' = Upd(idx, w, idx[w] + 1)
  /\ pc' = Upd(pc, w, IF idx[w] = Len(site.subject_rows) THEN "semesters" ELSE "subjrows")
  /\ UNCHANGED <<site, query, playwright, browser, opened, constructed, result,
                 resp, sentinelSeen, ran, failed, overlay, failedStep>>

(* variant of SubjectFail: the handler leaves the remaining phase out *)
SubjectFail_SkipsRest(w) ==
  /\ pc[w] \in {"subjects", "subjrows"}
  /\ ran' = Upd(ran, w, ran[w] \cup {"subjects"})
  /\ failed' = Upd(failed, w, failed[w] \cup {"subjects"})
  /\ pc' = Upd(pc, w, "close")
  /\ UNCHANGED <<site, query, playwright, browser, opened, constructed,
                 summary_data, idx, result, resp, sentinelSeen, overlay,
                 failedStep>>

(* a locator call of the phase raises: except Exception as e: print(...) *)
SubjectFail(w) ==
  /\ pc[w] \in {"subjects", "subjrows"}
  /\ ran' = Upd(ran, w, ran[w] \cup {"subjects"})
  /\ failed' = Upd(failed, w, failed[w] \cup {"subjects"})
  /\ pc' = Upd(pc, w, "semesters")
  /\ UNCHANGED <<site, query, playwright, browser, opened, constructed,
                 summary_data, idx, result, resp, sentinelSeen, overlay,
                 failedStep>>

(* ----------------------- phase 3: semester table ----------------------- *)
SemesterEntry(w, i, cells) ==
  [semester   |-> Strip(CellText(Student(w), "M", i, 0)),
   marks      |-> Strip(CellText(Student(w), "M", i, 1)),
   percentage |-> Strip(CellText(Student(w), "M", i, 2)),
   sgpa       |-> IF cells > SgpaCell
                    THEN Strip(CellText(Student(w), "M", i, SgpaCell)) ELSE <<>>]

(* sem_rows.count() > 0 ? summary_data["semesters"] = [] *)
(* variant of SemesterStart: the key is created before the rows are counted *)
SemesterStart_AlwaysCreates(w) ==
  /\ pc[w] = "semesters"
  /\ ran' = Upd(ran, w, ran[w] \cup {"semesters"})
  /\ summary_data' = Upd(summary_data, w, Put(summary_data[w], "semesters", <<>>))
  /\ IF Len(site.sem_rows) > 0
       THEN /\ idx' = Upd(idx, w, 1)
            /\ pc' = Upd(pc, w, "semrows")
       ELSE /\ pc' = Upd(pc, w, "close")
            /\ UNCHANGED idx
  /\ UNCHANGED <<site, query, playwright, browser, opened, constructed, result,
                 resp, sentinelSeen, failed, overlay, failedStep>>

SemesterStart(w) ==
  /\ pc[w] = "semesters"
  /\ ran' = Upd(ran, w, ran[w] \cup {"semesters"})
  /\ IF Len(site.sem_rows) > 0
       THEN /\ summary_data' = Upd(summary_data, w,
                                   Put(summary_data[w], "semesters", <<>>))
            /\ idx' = Upd(idx, w, 1)
            /\ pc' = Upd(pc, w, "semrows")
       ELSE /\ pc' = Upd(pc, w, "close")
            /\ UNCHANGED <<summary_data, idx>>
  /\ UNCHANGED <<site, query, playwright, browser, opened, constructed, result,
                 resp, sentinelSeen, failed, overlay, failedStep>>

(* variant of SemesterRow: a row needs the sgpa cell too to be read *)
SemesterRow_NeedsSgpaCell(w) ==
  /\ pc[w] = "semrows"
  /\ summary_data' = Upd(summary_data, w,
       IF site.sem_rows[idx[w]] > SgpaCell
         THEN [summary_data[w] EXCEPT !["semesters"] =
                  Append(@, SemesterEntry(w, idx[w], site.sem_rows[idx[w]]))]
         ELSE summary_data[w])
  /\ idx' = Upd(idx, w, idx[w] + 1)
  /\ pc' = Upd(pc, w, IF idx[w] = Len(site.sem_rows) THEN "close" ELSE "semrows")
  /\ UNCHANGED <<site, query, playwright, browser, opened, constructed, result,
                 resp, sentinelSeen, ran, failed, overlay, failedStep>>

(* one iteration of: for i in range(sem_rows.count()) *)
SemesterRow(w) ==
  /\ pc[w] = "semrows"
  /\ summary_data' = Upd(summary_data, w,
       IF site.sem_rows[idx[w]] >= MinSemesterCells
         THEN [summary_data[w] EXCEPT !["semesters"] =
                  Append(@, SemesterEntry(w, idx[w], site.sem_rows[idx[w]]))]
         ELSE summary_data[w])
  /\ idx' = Upd(idx, w, idx[w] + 1)
  /\ pc' = Upd(pc, w, IF idx[w] = Len(site.sem_rows) THEN "close" ELSE "semrows")
  /\ UNCHANGED <<site, query, playwright, browser, opened, constructed, result,
                 resp, sentinelSeen, ran, failed, overlay, failedStep>>

(* a locator call of the phase raises: except Exception as e: print(...) *)
SemesterFail(w) ==
  /\ pc[w] \in {"semesters", "semrows"}
  /\ ran' = Upd(ran, w, ran[w] \cup {"semesters"})
  /\ failed' = Upd(failed, w, failed[w] \cup {"semesters"})
  /\ pc' = Upd(pc, w, "close")
  /\ UNCHANGED <<site, query, playwright, browser, opened, constructed,
                 summary_data, idx, result, resp, sentinelSeen, overlay,
                 failedStep>>

(* ------------------------------ the exits ------------------------------ *)
(* browser.close(); return summary_data *)
CloseReturn(w) ==
  /\ pc[w] = "close"
  /\ browser' = Upd(browser, w, "closed")
  /\ result' = Upd(result, w, Returned(summary_data[w]))
  /\ pc' = Upd(pc, w, "exit")
  /\ UNCHANGED <<site, query, playwright, opened, constructed, summary_data,
                 idx, resp, sentinelSeen, ran, failed, overlay, failedStep>>

(* variant of WithExit: the driver is stopped but its browser is left running *)
WithExit_NoTeardown(w) ==
  /\ pc[w] = "exit"
  /\ playwright' = Upd(playwright, w, FALSE)
  /\ pc' = Upd(pc, w, "respond")
  /\ UNCHANGED <<site, query, browser, opened, constructed, summary_data, idx,
                 result, resp, sentinelSeen, ran, failed, overlay, failedStep>>

(* leaving the with block, by return or by exception: the context manager *)
(* stops the driver, which ends every browser it still runs               *)
WithExit(w) ==
  /\ pc[w] = "exit"
  /\ playwright' = Upd(playwright, w, FALSE)
  /\ browser' = Upd(browser, w, IF browser[w] = "open" THEN "closed" ELSE browser[w])
  /\ pc' = Upd(pc, w, "respond")
  /\ UNCHANGED <<site, query, opened, constructed, summary_data, idx, result,
                 resp, sentinelSeen, ran, failed, overlay, failedStep>>

(* --------------- get_ipu_student_data_direct: the response ------------- *)
EncodeEntry(r) == [f \in DOMAIN r |-> JsonString(r[f])]
EncodeList(s) == [i \in 1..Len(s) |-> EncodeEntry(s[i])]
TableKeys == {"subjects", "semesters"}

(* json.dumps of the student_data mapping *)
EncodeData(m) ==
  [k \in DOMAIN m |-> IF k \in TableKeys THEN EncodeList(m[k]) ELSE JsonString(m[k])]

SuccessResponse(w) ==
  [status       |-> "success",
   url          |-> JsonString(query[w].url),
   identifier   |-> JsonString(query[w].identifier),
   student_data |-> EncodeData(result[w].value)]

ErrorResponse(w) ==
  [status     |-> "error",
   error      |-> JsonString(<<"Failed to scrape student data: ">>
                             \o ErrText(result[w], query[w].identifier)),
   url        |-> JsonString(query[w].url),
   identifier |-> JsonString(query[w].identifier),
   note       |-> "URL is valid but scraping failed. You can visit the URL manually to see the results."]

(* variant of Respond: an exception of the scraper leaves the tool call *)
Respond_ReRaises(w) ==
  /\ pc[w] = "respond"
  /\ resp' = Upd(resp, w, IF result[w].tag = "return"
                            THEN SuccessResponse(w)
                            ELSE [status |-> "raised"])
  /\ pc' = Upd(pc, w, "done")
  /\ UNCHANGED <<site, query, playwright, browser, opened, constructed,
                 summary_data, idx, result, sentinelSeen, ran, failed, overlay,
                 failedStep>>

(* return json.dumps({...}) on either branch of the try *)
Respond(w) ==
  /\ pc[w] = "respond"
  /\ resp' = Upd(resp, w, IF result[w].tag = "return"
                            THEN SuccessResponse(w) ELSE ErrorResponse(w))
  /\ pc' = Upd(pc, w, "done")
  /\ UNCHANGED <<site, query, playwright, browser, opened, constructed,
                 summary_data, idx, result, sentinelSeen, ran, failed, overlay,
                 failedStep>>

(* the response is delivered; the invocation's locals are gone *)
Finish(w) ==
  /\ pc[w] = "done"
  /\ pc' = Upd(pc, w, "idle")
  /\ query' = Upd(query, w, NoQuery)
  /\ browser' = Upd(browser, w, "none")
  /\ opened' = Upd(opened, w, 0)
  /\ constructed' = Upd(constructed, w, FALSE)
  /\ summary_data' = Upd(summary_data, w, EmptyMap)
  /\ idx' = Upd(idx, w, 0)
  /\ result' = Upd(result, w, Pending)
  /\ resp' = Upd(resp, w, NoResp)
  /\ sentinelSeen' = Upd(sentinelSeen, w, FALSE)
  /\ ran' = Upd(ran, w, {})
  /\ failed' = Upd(failed, w, {})
  /\ overlay' = Upd(overlay, w, "none")
  /\ failedStep' = Upd(failedStep, w, "none")
  /\ UNCHANGED <<site, playwright>>

(* --------------------------- specification ----------------------------- *)
Body(w) ==
  \/ Launch(w)
  \/ LaunchFail(w)
  \/ NewPageGoto(w)
  \/ GotoFail(w)
  \/ \E o \in OverlayOutcomes : DismissOverlay(w, o)
  \/ RowClick(w)
  \/ RowFail(w)
  \/ WaitSentinel(w)
  \/ SentinelTimeout(w)
  \/ ReadField(w)
  \/ SkipField(w)
  \/ ScalarFail(w)
  \/ SubjectStart(w)
  \/ SubjectRow(w)
  \/ SubjectFail(w)
  \/ SemesterStart(w)
  \/ SemesterRow(w)
  \/ SemesterFail(w)
  \/ CloseReturn(w)
  \/ WithExit(w)
  \/ Respond(w)
  \/ Finish(w)

Step(w) ==
  \/ \E u \in Urls, i \in Identifiers : Call(w, u, i)
  \/ Body(w)

Next == \E w \in SeqWorkers : Step(w)

Spec == Init /\ [][Next]_vars

(* ---------------- requests dispatched onto separate workers ------------- *)
(* loop.run_in_executor(None, scrape_student_data, ...): every request runs *)
(* on a worker of its own, in any interleaving with the others              *)
ConcSites ==
  {[rows         |-> TwoStudents,
    labels       |-> [AllRendered EXCEPT !["Credit Marks:"] = "absent",
                                         !["Rank:"] = "absent"],
    subject_rows |-> <<2>>,
    sem_rows     |-> <<4>>]}

InitConc == site \in ConcSites /\ InitLocals

(* the two requests of the interleavings: one per student of the listing *)
ConcQueries == {[url |-> <<"u">>, identifier |-> <<"a">>],
                [url |-> <<"v", "\\">>, identifier |-> <<"\"", "b">>]}

ConcStep(w) ==
  \/ \E q \in ConcQueries : Call(w, q.url, q.identifier)
  \/ Body(w)

NextConc == \E w \in Workers : ConcStep(w)

SpecConc == InitConc /\ [][NextConc]_vars

(* ------------- one request at a time, every step eventually taken -------- *)
(* each step of a call is a Playwright call with a timeout or plain Python,  *)
(* run to its end by the executor thread: a call that can step does step     *)
FairSites ==
  {[rows |-> TwoStudents, labels |-> c, subject_rows |-> DefaultSubjects,
    sem_rows |-> t] : c \in OneDefect, t \in {<<>>, DefaultSemesters}}

InitFair == site \in FairSites /\ InitLocals

SpecFair == InitFair /\ [][Next]_vars /\ WF_vars(Next)

TypeOK ==
  /\ \A w \in Workers : browser[w] \in {"none", "open", "closed"}
  /\ \A w \in Workers : opened[w] \in 0..1

(* ======================= properties of the code ======================= *)
AllPhases == {"scalars", "subjects", "semesters"}
NavigatorSteps == {"lookup", "click", "sentinel"}
CallEnded(w) == pc[w] \in {"respond", "done"}
ScrapeReturned(w) == result[w].tag = "return"
ScrapeRaised(w) == result[w].tag = "raise"

(* C1: on every exit path of scrape_student_data that the launch precedes  *)
(* (page creation or load, overlay, row lookup/scroll/click, sentinel,     *)
(* any extraction phase, success) the invocation has opened exactly one    *)
(* browser session and that session is closed when the call has ended; no  *)
(* session is open after the call ends, and none is opened twice.          *)
C1_OneSessionAlwaysClosed ==
  \A w \in Workers :
    /\ opened[w] <= 1
    /\ CallEnded(w) => browser[w] # "open" /\ ~playwright[w]
    /\ (CallEnded(w) /\ failedStep[w] # "launch") =>
          (opened[w] = 1 /\ browser[w] = "closed")
    /\ pc[w] = "idle" => browser[w] # "open"

C1_Witness ==
  \E w \in Workers :
    /\ pc[w] = "respond"
    /\ failedStep[w] = "goto"
    /\ opened[w] = 1
    /\ browser[w] = "closed"

(* the error kinds of the specification's taxonomy, by failing step *)
TaxonomyKind(step) ==
  CASE step = "lookup"   -> "IdentifierNotFound"
    [] step = "click"    -> "RowInteractionFailed"
    [] step = "sentinel" -> "DetailPanelNotReady"
    [] OTHER             -> "LibraryError"

C3_ErrorResponseEchoesInputs ==
  \A w \in Workers :
    (/\ pc[w] = "done"
     /\ \/ MatchingRows(site.rows, query[w].identifier) = {}
        \/ failedStep[w] \in NavigatorSteps) =>
       /\ resp[w].status = "error"
       /\ JsonParseString(resp[w].url) = query[w].url
       /\ JsonParseString(resp[w].identifier) = query[w].identifier
       /\ "student_data" \notin DOMAIN resp[w]

C3_Witness ==
  \E w \in Workers :
    /\ pc[w] = "done"
    /\ failedStep[w] = "lookup"
    /\ query[w].identifier = <<"\"", "b">>
    /\ MatchingRows(site.rows, query[w].identifier) = {}
    /\ resp[w].status = "error"

MandatoryKeys == {"enrollment_number", "name", "marks", "percentage",
                  "equivalent_percentage", "credits_obtained", "rank"}

(* a scalar field whose label and value the document holds (and, for a     *)
(* conditional field, whose presence probe counts at least one label)      *)
Extractable(i) == ProbePasses(FieldOrder[i]) /\ Readable(FieldOrder[i].label)

(* C4 as stated: when reading one mandatory field fails, only that field   *)
(* is absent; every other scalar field whose label and value are present   *)
(* in the document is in the result.                                       *)
C4_PerFieldIsolation ==
  \A w \in Workers :
    ScrapeReturned(w) =>
      \A m \in 1..NumFields :
        (FieldOrder[m].key \in MandatoryKeys /\ ~Readable(FieldOrder[m].label)) =>
           /\ FieldOrder[m].key \notin DOMAIN result[w].value
           /\ \A i \in 1..NumFields :
                (i # m /\ Extractable(i)) =>
                   FieldOrder[i].key \in DOMAIN result[w].value

IsPrefix(a, b) == Len(a) <= Len(b) /\ \A i \in 1..Len(a) : a[i] = b[i]

(* what one step may do to the result mapping and still keep what is in it *)
Keeps(old, new) ==
  /\ DOMAIN old \subseteq DOMAIN new
  /\ \A k \in DOMAIN old :
       IF k \in TableKeys THEN IsPrefix(old[k], new[k]) ELSE new[k] = old[k]

ExtractionPcs == {"scalars", "subjects", "subjrows", "semesters", "semrows", "close"}

(* C5: the three extraction phases are independently fault-isolated: when  *)
(* scrape_student_data returns, all three phases have run whichever of     *)
(* them raised, no step from the first read to the return removes or       *)
(* changes anything already written to the result, and the value returned  *)
(* is the mapping as the phases left it.                                   *)
C5_PhasesFaultIsolated ==
  /\ [](\A w \in Workers :
          ScrapeReturned(w) =>
             /\ ran[w] = AllPhases
             /\ result[w].value = summary_data[w])
  /\ [][\A w \in Workers :
          (pc[w] \in ExtractionPcs /\ pc'[w] # pc[w]) =>
             /\ pc'[w] \in ExtractionPcs \cup {"exit"}
             /\ Keeps(summary_data[w], summary_data'[w])
             /\ failed[w] \subseteq failed'[w]]_vars

C5_Witness ==
  \E w \in Workers :
    /\ ScrapeReturned(w)
    /\ failed[w] = AllPhases
    /\ ran[w] = AllPhases
    /\ {"enrollment_number", "subjects", "semesters"} \subseteq DOMAIN result[w].value
    /\ Len(result[w].value["subjects"]) = 1

DecodeEntry(r) == [f \in DOMAIN r |-> JsonParseString(r[f])]
DecodeList(s) == [i \in 1..Len(s) |-> DecodeEntry(s[i])]
DecodeData(m) ==
  [k \in DOMAIN m |-> IF k \in TableKeys THEN DecodeList(m[k])
                                         ELSE JsonParseString(m[k])]

(* C6: once the sentinel label has been seen, no extractor failure makes   *)
(* the request fail: scrape_student_data raises nothing and returns the    *)
(* mapping, and the response has status success and carries exactly what   *)
(* was extracted, possibly nothing.                                        *)
C6_ExtractorFailuresNeverFatal ==
  \A w \in Workers :
    sentinelSeen[w] =>
      /\ ~ScrapeRaised(w)
      /\ CallEnded(w) => ScrapeReturned(w) /\ result[w].value = summary_data[w]
      /\ pc[w] = "done" =>
           /\ resp[w].status = "success"
           /\ "error" \notin DOMAIN resp[w]
           /\ DecodeData(resp[w].student_data) = summary_data[w]

C6_Witness ==
  \E w \in Workers :
    /\ pc[w] = "done"
    /\ sentinelSeen[w]
    /\ failed[w] = AllPhases
    /\ resp[w].status = "success"
    /\ DOMAIN resp[w].student_data = {}

(* C7 as stated: for every record whose document has no "Credit Marks:"    *)
(* label the result holds neither credit_marks nor credit_percentage and   *)
(* still holds every other field that is extractable from the document.    *)
C7_NoCreditLabelKeepsTheRest ==
  \A w \in Workers :
    (ScrapeReturned(w) /\ site.labels["Credit Marks:"] = "absent") =>
       /\ "credit_marks" \notin DOMAIN result[w].value
       /\ "credit_percentage" \notin DOMAIN result[w].value
       /\ \A i \in 1..NumFields :
            Extractable(i) => FieldOrder[i].key \in DOMAIN result[w].value

(* C8: no scalar read, no phase and no write to the result mapping happens *)
(* before the wait for the sentinel label has succeeded; when that wait    *)
(* fails, no extraction step is ever executed and no record is built.      *)
C8_NothingBeforeSentinel ==
  \A w \in Workers :
    /\ (\/ constructed[w]
        \/ DOMAIN summary_data[w] # {}
        \/ ran[w] # {}
        \/ failed[w] # {}
        \/ pc[w] \in ExtractionPcs
        \/ ScrapeReturned(w)) => sentinelSeen[w]
    /\ failedStep[w] = "sentinel" =>
         /\ ~sentinelSeen[w]
         /\ ~constructed[w]
         /\ ran[w] = {}
         /\ DOMAIN summary_data[w] = {}
         /\ ScrapeRaised(w)

C8_Witness ==
  \E w \in Workers :
    /\ pc[w] = "done"
    /\ failedStep[w] = "sentinel"
    /\ ~constructed[w]
    /\ resp[w].status = "error"

(* the text of a cell without the whitespace around it *)
Trimmed(text) == SelectSeq(text, LAMBDA c : c \notin Whitespace)

RowsWithAtLeast(rows, n) ==
  SelectSeq([i \in 1..Len(rows) |-> i], LAMBDA i : rows[i] >= n)

ExpectedSubjects(student, rows) ==
  LET kept == RowsWithAtLeast(rows, 2)
  IN  [k \in 1..Len(kept) |->
         [subject |-> Trimmed(CellText(student, "S", kept[k], 0)),
          marks   |-> Trimmed(CellText(student, "S", kept[k], 1))]]

PastSubjects(w) ==
  /\ "subjects" \in ran[w]
  /\ pc[w] \in {"semesters", "semrows", "close", "exit", "respond", "done"}

(* C9: for every subject table with at least one body row, once the        *)
(* subject phase has ended without raising, subjects is exactly the rows   *)
(* with at least 2 cells, in row order, each as {subject: text of cell 0,  *)
(* marks: text of cell 1}; a row with fewer than 2 cells is left out and   *)
(* the rows around it are kept. (If the phase raised part-way, subjects is *)
(* a prefix of that sequence.)                                             *)
C9_SubjectsAreTheWellFormedRows ==
  \A w \in Workers :
    (PastSubjects(w) /\ Len(site.subject_rows) > 0) =>
       IF "subjects" \notin failed[w]
         THEN /\ "subjects" \in DOMAIN summary_data[w]
              /\ summary_data[w]["subjects"] = ExpectedSubjects(Student(w), site.subject_rows)
         ELSE "subjects" \in DOMAIN summary_data[w] =>
                IsPrefix(summary_data[w]["subjects"], ExpectedSubjects(Student(w), site.subject_rows))

C9_Witness ==
  \E w \in Workers :
    /\ pc[w] = "close"
    /\ "subjects" \notin failed[w]
    /\ site.subject_rows = <<1, 2>>
    /\ Len(summary_data[w]["subjects"]) = 1
    /\ Student(w) = 2
    /\ summary_data[w]["subjects"][1].subject = <<"S", "2", "2", "0">>

ExpectedSemesters(student, rows) ==
  LET kept == RowsWithAtLeast(rows, 3)
  IN  [k \in 1..Len(kept) |->
         [semester   |-> Trimmed(CellText(student, "M", kept[k], 0)),
          marks      |-> Trimmed(CellText(student, "M", kept[k], 1)),
          percentage |-> Trimmed(CellText(student, "M", kept[k], 2)),
          sgpa       |-> IF rows[kept[k]] >= 4
                           THEN Trimmed(CellText(student, "M", kept[k], 3)) ELSE <<>>]]

PastSemesters(w) ==
  /\ "semesters" \in ran[w]
  /\ pc[w] \in {"close", "exit", "respond", "done"}

(* C10: for every semester table, once the semester phase has ended        *)
(* without raising, each row with at least 3 cells has given one entry     *)
(* with semester/marks/percentage from cells 0-2 and sgpa from cell 3 if   *)
(* the row has a 4th cell and the empty string otherwise; rows with fewer  *)
(* than 3 cells give no entry; so when every row has exactly 3 cells every *)
(* entry has sgpa = "".                                                    *)
C10_SemesterEntriesShape ==
  \A w \in Workers :
    (PastSemesters(w) /\ Len(site.sem_rows) > 0) =>
       /\ IF "semesters" \notin failed[w]
            THEN /\ "semesters" \in DOMAIN summary_data[w]
                 /\ summary_data[w]["semesters"] = ExpectedSemesters(Student(w), site.sem_rows)
            ELSE "semesters" \in DOMAIN summary_data[w] =>
                   IsPrefix(summary_data[w]["semesters"], ExpectedSemesters(Student(w), site.sem_rows))
       /\ (/\ "semesters" \in DOMAIN summary_data[w]
           /\ \A i \in 1..Len(site.sem_rows) : site.sem_rows[i] = 3) =>
             \A k \in 1..Len(summary_data[w]["semesters"]) :
                summary_data[w]["semesters"][k].sgpa = <<>>

C10_Witness ==
  \E w \in Workers :
    /\ pc[w] = "close"
    /\ "semesters" \notin failed[w]
    /\ site.sem_rows = <<3, 3>>
    /\ Len(summary_data[w]["semesters"]) = 2
    /\ summary_data[w]["semesters"][2].sgpa = <<>>


MandatoryLabels == {FieldOrder[i].label : i \in {j \in 1..NumFields :
                                                  FieldOrder[j].key \in MandatoryKeys}}

(* the panel of the full-render scenario: the seven mandatory labels, SGPA *)
(* and CGPA rendered with their values, a credit section that is rendered  *)
(* whole or not at all, and tables of well-formed rows only                *)
FullRender ==
  /\ \A l \in MandatoryLabels \cup {"SGPA:", "CGPA:"} : site.labels[l] = "value"
  /\ \/ site.labels["Credit Marks:"] = "absent"
     \/ /\ site.labels["Credit Marks:"] = "value"
        /\ site.labels["Credit Percentage:"] = "value"
  /\ Len(site.subject_rows) >= 1
  /\ Len(site.sem_rows) >= 1
  /\ \A i \in 1..Len(site.subject_rows) : site.subject_rows[i] >= 2
  /\ \A i \in 1..Len(site.sem_rows) : site.sem_rows[i] >= 3

FirstFailing ==
  LET bad == {i \in 1..NumFields :
                ProbePasses(FieldOrder[i]) /\ ~Readable(FieldOrder[i].label)}
  IN  IF bad = {} THEN NumFields + 1
      ELSE CHOOSE i \in bad : \A j \in bad : i <= j

ScalarKeys == {FieldOrder[i].key : i \in 1..NumFields}

ExpectedScalars(student) ==
  LET first == FirstFailing
  IN  [k \in {FieldOrder[i].key : i \in {j \in 1..NumFields :
                                           j < first /\ ProbePasses(FieldOrder[j])}}
         |-> Trimmed(ValueText(student, k))]

ExpectedTable(student, k) ==
  IF k = "subjects" THEN ExpectedSubjects(student, site.subject_rows)
                    ELSE ExpectedSemesters(student, site.sem_rows)

TableRows(k) == IF k = "subjects" THEN site.subject_rows ELSE site.sem_rows

(* the mapping v holds what the page shows for worker w's own query, and    *)
(* nothing else: its scalar part is the page's, each table is the page's    *)
(* (a prefix of it when the table's phase raised part-way)                  *)
OwnData(w, v) ==
  LET student == Student(w)
  IN  /\ DOMAIN v \subseteq ScalarKeys \cup TableKeys
      /\ [k \in (DOMAIN v) \cap ScalarKeys |-> v[k]] = ExpectedScalars(student)
      /\ \A k \in TableKeys :
           IF k \in failed[w]
             THEN k \in DOMAIN v => IsPrefix(v[k], ExpectedTable(student, k))
             ELSE IF Len(TableRows(k)) = 0 THEN k \notin DOMAIN v
                  ELSE k \in DOMAIN v /\ v[k] = ExpectedTable(student, k)

(* two invocations in which the same browser steps succeeded and failed *)
SameOutcomes(a, b) ==
  /\ failedStep[a] = failedStep[b]
  /\ result[a].tag = result[b].tag
  /\ ScrapeRaised(a) => result[a].cause = result[b].cause
  /\ failed[a] = failed[b]
  /\ failed[a] \cap TableKeys = {}

(* C12: idempotence, no state leakage: for the same (url, identifier) and   *)
(* an unchanged page that renders the same way (the same waits and locator  *)
(* calls succeed), two invocations give identical responses, whatever other *)
(* invocations ran before or between them; what an invocation returns is    *)
(* made of its inputs and the page only.                                    *)
C12_SameInputsSameResult ==
  /\ \A a, b \in Workers :
       (/\ pc[a] = "done" /\ pc[b] = "done"
        /\ query[a] = query[b]
        /\ SameOutcomes(a, b)) => resp[a] = resp[b]
  /\ \A w \in Workers :
       ScrapeReturned(w) => OwnData(w, result[w].value)

C12_Witness ==
  \E a, b \in Workers :
    /\ a # b
    /\ pc[a] = "done" /\ pc[b] = "done"
    /\ query[a] = query[b]
    /\ SameOutcomes(a, b)
    /\ overlay[a] # overlay[b]
    /\ resp[a].status = "success"
    /\ resp[a] = resp[b]
    /\ "credits_obtained" \in DOMAIN resp[a].student_data

Locals(w) ==
  <<query[w], playwright[w], browser[w], opened[w], constructed[w],
    summary_data[w], idx[w], result[w], resp[w], sentinelSeen[w], ran[w],
    failed[w], overlay[w], failedStep[w]>>

(* what the request of worker w returns when it runs alone and no locator *)
(* call of a table phase raises                                           *)
SoloValue(w) ==
  LET tables == {k \in TableKeys : Len(TableRows(k)) > 0}
      scalars == ExpectedScalars(Student(w))
  IN  [k \in (DOMAIN scalars) \cup tables |->
         IF k \in tables THEN ExpectedTable(Student(w), k) ELSE scalars[k]]

(* C13: requests on separate workers, in any interleaving, are independent: *)
(* a step of one request changes nothing of another; each request uses a    *)
(* session of its own, closed when its call has ended; and each request's   *)
(* outcome is the one it has when run alone.                                *)
C13_ConcurrentIndependent ==
  /\ [][\A a, b \in Workers :
          (a # b /\ Locals(a)' # Locals(a)) => Locals(b)' = Locals(b)]_vars
  /\ [](\A w \in Workers :
          /\ opened[w] <= 1
          /\ CallEnded(w) => browser[w] # "open"
          /\ pc[w] \in {"goto", "overlay", "row", "sentinel"} \cup ExtractionPcs
                => browser[w] = "open"
          /\ ScrapeReturned(w) => OwnData(w, result[w].value)
          /\ (pc[w] = "done" /\ ScrapeReturned(w) /\ failed[w] \cap TableKeys = {})
                => /\ DecodeData(resp[w].student_data) = SoloValue(w)
                   /\ JsonParseString(resp[w].identifier) = query[w].identifier
          /\ (pc[w] = "done" /\ ScrapeRaised(w)) => resp[w] = ErrorResponse(w))

C13_Witness ==
  \E a, b \in Workers :
    /\ a # b
    /\ pc[a] = "subjrows" /\ pc[b] = "done"
    /\ browser[a] = "open" /\ browser[b] = "closed"
    /\ Student(a) = 1 /\ Student(b) = 2
    /\ resp[b].status = "success"
    /\ resp[b].student_data["name"] = JsonString(<<"v", "name", "2">>)


(* ------------------------------- C14 ----------------------------------- *)
PastTable(w, k) == IF k = "subjects" THEN PastSubjects(w) ELSE PastSemesters(w)

(* C14: once the phase of a table has ended, the table's key is in the     *)
(* mapping only if the table's locator matched at least one body row, and, *)
(* unless a locator call of the phase raised before the key was written,   *)
(* whenever it matched at least one; a body of zero rows leaves the key    *)
(* out (it is never set to an empty sequence for that reason), while a     *)
(* body whose rows are all too short gives the key with an empty sequence. *)
C14_TableKeyIffRowsMatched ==
  \A w \in Workers : \A k \in TableKeys :
    PastTable(w, k) =>
      /\ (k \in DOMAIN summary_data[w]) => Len(TableRows(k)) > 0
      /\ (k \notin failed[w]) =>
            ((k \in DOMAIN summary_data[w]) <=> (Len(TableRows(k)) > 0))
      /\ ScrapeReturned(w) =>
            ((k \in DOMAIN result[w].value) <=> (k \in DOMAIN summary_data[w]))

C14_Witness ==
  \E w \in Workers :
    /\ ScrapeReturned(w)
    /\ failed[w] = {}
    /\ Len(site.subject_rows) = 0
    /\ Len(site.sem_rows) > 0
    /\ "subjects" \notin DOMAIN result[w].value
    /\ "semesters" \in DOMAIN result[w].value
    /\ "name" \in DOMAIN result[w].value


(* ------------------------------- C15 ----------------------------------- *)
(* C15 as stated: every result returned on success carries both a subjects *)
(* and a semesters sequence, empty when the table is not in the document.  *)
C15_BothSequencesAlways ==
  \A w \in Workers :
    ScrapeReturned(w) =>
      \A k \in TableKeys :
        /\ k \in DOMAIN result[w].value
        /\ Len(TableRows(k)) = 0 => result[w].value[k] = <<>>

WellFormedRows(k) ==
  RowsWithAtLeast(TableRows(k),
                  IF k = "subjects" THEN MinSubjectCells ELSE MinSemesterCells)

(* C15 amended: a result returned on success carries a subjects (semesters) *)
(* sequence only when the table's locator matched at least one body row;    *)
(* when no such row is in the document the result has no such key at all,   *)
(* and the empty sequence stands for a table none of whose rows was read    *)
(* (all rows too short, or the phase raised before its first entry).        *)
C15_SequenceOnlyForMatchedTable ==
  \A w \in Workers :
    ScrapeReturned(w) =>
      /\ DOMAIN result[w].value \subseteq ScalarKeys \cup TableKeys
      /\ \A k \in TableKeys :
           IF Len(TableRows(k)) = 0
             THEN k \notin DOMAIN result[w].value
             ELSE /\ k \notin failed[w] => k \in DOMAIN result[w].value
                  /\ (k \in DOMAIN result[w].value /\ result[w].value[k] = <<>>)
                        => (k \in failed[w] \/ WellFormedRows(k) = <<>>)

C15_Witness ==
  \E w \in Workers :
    /\ ScrapeReturned(w)
    /\ failed[w] = {}
    /\ Len(site.sem_rows) = 0
    /\ "semesters" \notin DOMAIN result[w].value
    /\ "subjects" \in DOMAIN result[w].value
    /\ Len(result[w].value["subjects"]) = 1


(* ------------------------------- C16 ----------------------------------- *)
AfterOverlayPcs == {"row", "sentinel"} \cup ExtractionPcs

(* C16: the overlay dismissal is non-fatal and changes nothing of the      *)
(* protocol: whether the close control is absent, its click times out or   *)
(* it is clicked, the call stands at the row lookup next with its session  *)
(* open and nothing raised; no call ever fails at the overlay step; and    *)
(* the outcome of the call is what the page and the later steps give,      *)
(* the same in all three cases.                                            *)
C16_OverlayNonFatal ==
  \A w \in Workers :
    /\ pc[w] = "row" =>
          /\ overlay[w] \in OverlayOutcomes
          /\ browser[w] = "open"
          /\ result[w] = Pending
          /\ failedStep[w] = "none"
    /\ pc[w] \in AfterOverlayPcs => overlay[w] \in OverlayOutcomes
    /\ ScrapeRaised(w) =>
          /\ failedStep[w] \in {"launch", "goto"} \cup NavigatorSteps
          /\ failedStep[w] \in {"launch", "goto"} <=> overlay[w] = "none"
    /\ ScrapeReturned(w) =>
          /\ overlay[w] \in OverlayOutcomes
          /\ OwnData(w, result[w].value)
    /\ (pc[w] = "done" /\ ScrapeReturned(w) /\ failed[w] = {}) =>
          /\ resp[w].status = "success"
          /\ DecodeData(resp[w].student_data) = SoloValue(w)

C16_Witness ==
  \E w \in Workers :
    /\ pc[w] = "done"
    /\ overlay[w] = "timeout"
    /\ failed[w] = {}
    /\ resp[w].status = "success"
    /\ "rank" \in DOMAIN resp[w].student_data


(* ------------------------------- C17 ----------------------------------- *)
CreditMarksIdx == CHOOSE i \in 1..NumFields : FieldOrder[i].key = "credit_marks"

(* C17 as stated: in every returned result credit_marks is present if and  *)
(* only if credit_percentage is present.                                   *)
C17_CreditPairAtomic ==
  \A w \in Workers :
    ScrapeReturned(w) =>
      ("credit_marks" \in DOMAIN result[w].value
         <=> "credit_percentage" \in DOMAIN result[w].value)

(* C17 amended: in every returned result credit_percentage is present only *)
(* if credit_marks is, and neither is present when the "Credit Marks:"     *)
(* label is not in the document; the pair is not atomic: when the fields   *)
(* before it and credit_marks were read and the "Credit Percentage:" label *)
(* or its value cannot be read, credit_marks is present alone.             *)
C17_CreditPercentageOnlyWithMarks ==
  \A w \in Workers :
    ScrapeReturned(w) =>
      LET v == result[w].value
      IN  /\ "credit_percentage" \in DOMAIN v => "credit_marks" \in DOMAIN v
          /\ site.labels["Credit Marks:"] = "absent" =>
                {"credit_marks", "credit_percentage"} \cap DOMAIN v = {}
          /\ ("credit_marks" \in DOMAIN v /\ "credit_percentage" \notin DOMAIN v)
                <=> (/\ \A i \in 1..CreditMarksIdx : Extractable(i)
                     /\ site.labels["Credit Percentage:"] # "value")
          /\ "credit_marks" \in DOMAIN v =>
                v["credit_marks"] = Trimmed(ValueText(Student(w), "credit_marks"))

C17_Witness ==
  \E w \in Workers :
    /\ ScrapeReturned(w)
    /\ site.labels["Credit Marks:"] = "value"
    /\ site.labels["Credit Percentage:"] = "nosibling"
    /\ "credit_marks" \in DOMAIN result[w].value
    /\ "credit_percentage" \notin DOMAIN result[w].value


(* ------------------------------- C18 ----------------------------------- *)
KeyIdx(k) == CHOOSE i \in 1..NumFields : FieldOrder[i].key = k

(* the scalar keys of mapping v are a prefix of the extraction order, *)
(* fields whose presence probe counted zero set aside                 *)
ScalarPrefix(v) ==
  \A i, j \in 1..NumFields :
    (i < j /\ FieldOrder[j].key \in DOMAIN v /\ ProbePasses(FieldOrder[i]))
       => FieldOrder[i].key \in DOMAIN v

(* C18: the scalar fields are read in the fixed order enrollment_number,   *)
(* name, marks, percentage, [credit_marks, credit_percentage], [sgpa],     *)
(* [cgpa], equivalent_percentage, credits_obtained, rank; in every         *)
(* returned result a scalar key that is present has every earlier field    *)
(* whose read was attempted present too; rank present implies all seven    *)
(* mandatory keys present.                                                 *)
C18_ScalarKeysArePrefix ==
  \A w \in Workers :
    /\ pc[w] = "scalars" =>
          (DOMAIN summary_data[w]) =
             {FieldOrder[i].key : i \in {j \in 1..(idx[w] - 1) : ProbePasses(FieldOrder[j])}}
    /\ ScrapeReturned(w) =>
          /\ ScalarPrefix(result[w].value)
          /\ "rank" \in DOMAIN result[w].value =>
                MandatoryKeys \subseteq DOMAIN result[w].value
          /\ \A k \in (DOMAIN result[w].value) \cap ScalarKeys :
                ProbePasses(FieldOrder[KeyIdx(k)])

C18_Witness ==
  \E w \in Workers :
    /\ ScrapeReturned(w)
    /\ site.labels["SGPA:"] = "absent"
    /\ site.labels["Credits Obtained:"] = "absent"
    /\ "sgpa" \notin DOMAIN result[w].value
    /\ "equivalent_percentage" \in DOMAIN result[w].value
    /\ "credits_obtained" \notin DOMAIN result[w].value
    /\ "rank" \notin DOMAIN result[w].value


(* ------------------------------- C19 ----------------------------------- *)
ErrorPrefix == <<"Failed to scrape student data: ">>

(* C19: get_ipu_student_data_direct is total: for every url and identifier *)
(* and every behaviour of the scraper, return or raise, the call comes to  *)
(* its end with a response and never with an exception; the response has   *)
(* status success exactly when scrape_student_data returned (and then      *)
(* carries its mapping) and status error exactly when it raised (and then  *)
(* carries the exception's text), and either way echoes the url and the    *)
(* identifier it was given.                                                *)
C19_EntryPointTotal ==
  /\ [](\A w \in Workers :
          /\ pc[w] = "respond" => (ScrapeReturned(w) \/ ScrapeRaised(w))
          /\ pc[w] = "done" =>
                /\ resp[w].status \in {"success", "error"}
                /\ resp[w].status = "success" <=> ScrapeReturned(w)
                /\ resp[w].status = "error" <=> ScrapeRaised(w)
                /\ JsonParseString(resp[w].url) = query[w].url
                /\ JsonParseString(resp[w].identifier) = query[w].identifier
                /\ ScrapeReturned(w) =>
                      DecodeData(resp[w].student_data) = result[w].value
                /\ ScrapeRaised(w) =>
                      JsonParseString(resp[w].error)
                         = ErrorPrefix \o ErrText(result[w], query[w].identifier))
  /\ \A w \in SeqWorkers : (pc[w] = "launch") ~> (pc[w] = "done")

C19_Witness ==
  \E w \in Workers :
    /\ pc[w] = "done"
    /\ ScrapeRaised(w)
    /\ failedStep[w] = "lookup"
    /\ resp[w].status = "error"
    /\ query[w].url = <<"v", "\\">>
    /\ resp[w].url # query[w].url
    /\ JsonParseString(resp[w].url) = query[w].url

====
